---------------------------- MODULE Spec2Model ----------------------------
(***************************************************************************)
(* State-machine model of the signaling relay (src/server.js) and of the   *)
(* STUN address-discovery transaction (src/stun.js).                       *)
(*                                                                         *)
(* Spec     : the relay.  One action per event the WebSocket server        *)
(*            dispatches: a new connection, an inbound message (the whole  *)
(*            ws.on("message") handler) and the close event (the whole     *)
(*            ws.on("close") handler).                                     *)
(* StunSpec : one getPublicAddress transaction.  One action for the call   *)
(*            and one per callback it registers: the socket's 'message'    *)
(*            and 'error' events, the callback of send, and the timer.     *)
(***************************************************************************)
EXTENDS Integers, Sequences, FiniteSets, TLC

VARIABLES
    rooms,       \* server.js:16   room id -> ordered list of connections
    roomId,      \* server.js:33,44  ws.roomId, the back-reference of each connection
    readyState,  \* ws.readyState of each connection
    crashed,     \* TRUE once a handler has thrown (an uncaught exception ends the process)
    sent,        \* the send() calls of the handler that ran last, in order
    last,        \* the event that handler was run for
    creator,     \* history: the connection whose create-room produced each room
    \* src/stun.js: one getPublicAddress transaction
    pc,          \* "idle" before the call, "sent" once the request is out
    request,     \* stun.js:98   the Binding Request that was sent
    promise,     \* stun.js:97   the promise getPublicAddress returns
    isClosed,    \* stun.js:87   the flag of closeSocket
    closeCalls,  \* how many times socket.close() was invoked
    timerArmed,  \* stun.js:133  the timeout is pending
    sendPending, \* stun.js:107  the callback of socket.send has not run yet
    datagrams,   \* how many inbound datagrams were handled
    errors,      \* how many socket 'error' events were handled
    now,         \* milliseconds elapsed since getPublicAddress was called
    first,       \* the first event that produced an outcome
    \* src/stun.js: one call of the decoder
    attrList,    \* the attributes of the response handed to the decoder
    decoded      \* what the decoder returned or threw, and the offsets it read

relayVars == <<rooms, roomId, readyState, crashed, sent, last>>

stunVars == <<pc, request, promise, isClosed, closeCalls, timerArmed,
              sendPending, datagrams, errors, now, first>>

codecVars == <<attrList, decoded>>

vars == <<relayVars, creator, stunVars, codecVars>>

-----------------------------------------------------------------------------
(* Bounds of the model *)

\* The connections (ws objects) the model follows.
Conns == {"c1", "c2", "c3"}

\* The identifiers createRoomId can return in the model.
RoomIds == {"r1", "r2"}

\* The room table is not followed beyond this many list entries in all
\* (a create-room or a join-room that would exceed it is not taken).
MaxEntries == 3

-----------------------------------------------------------------------------
(* JavaScript values *)

\* The value of a property that is absent.
Undefined == "undefined"

\* obj.k : the property, or undefined when the object does not have it.
Get(obj, k) == IF k \in DOMAIN obj THEN obj[k] ELSE Undefined

\* JSON.stringify of an object literal: a property whose value is undefined
\* is left out of the text.
Stringify(obj) ==
    [k \in {j \in DOMAIN obj : obj[j] # Undefined} |-> obj[k]]

\* rooms is a plain object literal ({}), so rooms[key] also finds what
\* Object.prototype holds.  "constructor" stands for those inherited keys:
\* its value is truthy and has neither push nor forEach.
ProtoKeys == {"constructor"}

\* if (rooms[key]) : an own entry (always an array here) or an inherited one.
Truthy(rs, key) == key \in DOMAIN rs \/ key \in ProtoKeys

\* rooms[key] is one of the arrays stored by the handlers.
IsList(rs, key) == key \in DOMAIN rs

-----------------------------------------------------------------------------
(* Inbound messages: the objects JSON.parse hands to the handler *)

Usernames == {"alice"}

RelayTypes == {"webrtc-offer", "webrtc-answer", "webrtc-ice"}

\* The messages the model lets a client send.  Every recognized type is
\* there with and without its fields; a room id is one of the model's ids
\* or a key every JavaScript object inherits.
JoinInbound ==
    {[type |-> "join-room", roomId |-> r, username |-> u] :
         r \in RoomIds \cup ProtoKeys, u \in Usernames}
    \cup {[type |-> "join-room", roomId |-> r] : r \in RoomIds}
    \cup {[type |-> "join-room", username |-> u] : u \in Usernames}

RelayInbound ==
    {[type |-> t, roomId |-> "r1"] : t \in RelayTypes}
    \cup {[type |-> "webrtc-offer", roomId |-> r] : r \in RoomIds \cup ProtoKeys}
    \cup {[type |-> "webrtc-offer"]}

OtherInbound == {[type |-> "leave-room"], [roomId |-> "r1"]}

Inbound ==
    {[type |-> "create-room"]} \cup JoinInbound \cup RelayInbound \cup OtherInbound

-----------------------------------------------------------------------------
(* Helpers on lists *)

RECURSIVE Filter(_, _)
\* Array.prototype.filter with the test "element is in keep".
Filter(list, keep) ==
    IF list = <<>> THEN <<>>
    ELSE IF Head(list) \in keep
         THEN <<Head(list)>> \o Filter(Tail(list), keep)
         ELSE Filter(Tail(list), keep)

\* One send() call: client.send(JSON.stringify(obj)).
Send(client, obj) == [to |-> client, msg |-> Stringify(obj)]

\* list.forEach(client => client.send(...obj...)) over the clients kept.
SendEach(list, keep, obj) ==
    LET targets == Filter(list, keep)
    IN  [i \in 1..Len(targets) |-> Send(targets[i], obj)]

Open(rs) == {c \in Conns : rs[c] = "OPEN"}

RECURSIVE SumLen(_, _)
SumLen(rs, ids) ==
    IF ids = {} THEN 0
    ELSE LET id == CHOOSE x \in ids : TRUE
         IN  Len(rs[id]) + SumLen(rs, ids \ {id})

\* The number of list entries of the room table.
Entries(rs) == SumLen(rs, DOMAIN rs)


-----------------------------------------------------------------------------
(* The relay: src/server.js *)

\* `last` for an event that carries no message.
NoData == [type |-> "(none)"]

Event(kind, ws, data) == [kind |-> kind, ws |-> ws, data |-> data]

\* let rooms = {} and no connection yet.
RelayInit ==
    /\ rooms = [k \in {} |-> <<>>]
    /\ roomId = [c \in Conns |-> Undefined]
    /\ readyState = [c \in Conns |-> "NEW"]
    /\ crashed = FALSE
    /\ sent = <<>>
    /\ last = Event("start", "c1", NoData)
    /\ creator = [k \in {} |-> "c1"]

\* wss.on("connection", (ws) => ...): the connection is open and its two
\* handlers are registered.
Connect(ws) ==
    /\ ~crashed
    /\ readyState[ws] = "NEW"
    /\ readyState' = [readyState EXCEPT ![ws] = "OPEN"]
    /\ sent' = <<>>
    /\ last' = Event("connection", ws, NoData)
    /\ UNCHANGED <<rooms, roomId, crashed>>
    /\ UNCHANGED <<stunVars, codecVars>>

\* rooms[roomId] = [ws]
StoreRoom(rs, id, ws) ==
    [k \in DOMAIN rs \cup {id} |-> IF k = id THEN <<ws>> ELSE rs[k]]

\* data.type === "create-room": the id drawn by createRoomId is any of the
\* model's ids (it is not compared with the ids in use).
CreateRoom(ws, data) ==
    /\ Get(data, "type") = "create-room"
    /\ \E id \in RoomIds :
          /\ Entries(StoreRoom(rooms, id, ws)) <= MaxEntries
          /\ rooms' = StoreRoom(rooms, id, ws)
          /\ roomId' = [roomId EXCEPT ![ws] = id]
          /\ sent' = <<Send(ws, [type |-> "room-created", roomId |-> id])>>
    /\ UNCHANGED crashed

\* Mutant of JoinNotified: the readyState test is left out.
JoinNotifiedAll(list, rs) == Conns

\* The clients the forEach of the join-room handler sends user-joined to.
JoinNotified(list, rs) == Open(rs)

\* if (rooms[roomId].length >= 2)
StartWebrtcDue(list) == Len(list) >= 2

\* Mutant of StartTarget: start-webrtc goes to the connection that joined.
StartTargetJoiner(list) == list[Len(list)]

\* rooms[roomId][0]
StartTarget(list) == list[1]

\* What send() can do on the connection it is called on: it returns, or, on
\* a connection that is not open, it may throw (ws before 7.0 throws when no
\* callback is given; later versions return).
SendThrows(rs, client) ==
    IF rs[client] = "OPEN" THEN {FALSE} ELSE {FALSE, TRUE}

\* data.type === "join-room"
JoinRoom(ws, data) ==
    /\ Get(data, "type") = "join-room"
    /\ LET key      == Get(data, "roomId")
           username == Get(data, "username")
       IN  IF Truthy(rooms, key)
           THEN IF IsList(rooms, key)
                THEN LET list == Append(rooms[key], ws)
                         notices == SendEach(list, JoinNotified(list, readyState),
                                         [type |-> "user-joined",
                                          username |-> username])
                     IN  /\ Entries(rooms) < MaxEntries
                         /\ rooms' = [rooms EXCEPT ![key] = list]
                         /\ roomId' = [roomId EXCEPT ![ws] = key]
                         /\ IF StartWebrtcDue(list)
                            THEN /\ sent' = Append(notices,
                                        Send(StartTarget(list), [type |-> "start-webrtc"]))
                                 /\ crashed' \in SendThrows(readyState, StartTarget(list))
                            ELSE /\ sent' = notices
                                 /\ UNCHANGED crashed
                \* rooms[roomId].push is not a function: TypeError
                ELSE /\ crashed' = TRUE
                     /\ sent' = <<>>
                     /\ UNCHANGED <<rooms, roomId>>
           ELSE /\ sent' = <<Send(ws, [type |-> "error",
                                       message |-> "Room not found"])>>
                /\ UNCHANGED <<rooms, roomId, crashed>>

\* Mutant of RelayTargets: a sender that is not in the room's list reaches
\* nobody.
RelayTargetsMembersOnly(ws, roomUsers, rs) ==
    IF ws \in {roomUsers[i] : i \in DOMAIN roomUsers} THEN Open(rs) \ {ws} ELSE {}

\* Mutant of RelayTargets: the test client !== ws is left out.
RelayTargetsEcho(ws, roomUsers, rs) == Open(rs)

\* The clients the relay's forEach forwards to.
RelayTargets(ws, roomUsers, rs) == Open(rs) \ {ws}

\* data.type is webrtc-offer, webrtc-answer or webrtc-ice
Relay(ws, data) ==
    /\ Get(data, "type") \in RelayTypes
    /\ LET key == Get(data, "roomId")
       IN  IF Truthy(rooms, key)
           THEN IF IsList(rooms, key)
                THEN /\ sent' = SendEach(rooms[key],
                                    RelayTargets(ws, rooms[key], readyState), data)
                     /\ UNCHANGED crashed
                \* roomUsers.forEach is not a function: TypeError
                ELSE /\ crashed' = TRUE
                     /\ sent' = <<>>
           ELSE /\ sent' = <<>>
                /\ UNCHANGED crashed
    /\ UNCHANGED <<rooms, roomId>>

\* Mutant of OtherMessage: a message that matches no condition is answered
\* with an error.
OtherMessageReplies(ws, data) ==
    /\ Get(data, "type") \notin {"create-room", "join-room"} \cup RelayTypes
    /\ sent' = <<Send(ws, [type |-> "error", message |-> "Unknown message"])>>
    /\ UNCHANGED <<rooms, roomId, crashed>>

\* None of the three conditions of the handler holds.
OtherMessage(ws, data) ==
    /\ Get(data, "type") \notin {"create-room", "join-room"} \cup RelayTypes
    /\ sent' = <<>>
    /\ UNCHANGED <<rooms, roomId, crashed>>

\* ws.on("message", ...): one run of the handler, on the message of an open
\* connection.
OnMessage(ws, data) ==
    /\ ~crashed
    /\ readyState[ws] = "OPEN"
    /\ \/ CreateRoom(ws, data)
       \/ JoinRoom(ws, data)
       \/ Relay(ws, data)
       \/ OtherMessage(ws, data)
    /\ last' = Event("message", ws, data)
    /\ UNCHANGED readyState
    /\ UNCHANGED <<stunVars, codecVars>>

\* Mutant of LeaveRoom: the room is kept when its list becomes empty.
LeaveRoomKeepEmpty(rs, ws, id) ==
    [rs EXCEPT ![id] = Filter(rs[id], Conns \ {ws})]

\* rooms[id] = rooms[id].filter(client => client !== ws), and the room is
\* deleted when nothing is left.
LeaveRoom(rs, ws, id) ==
    LET rest == Filter(rs[id], Conns \ {ws})
    IN  IF Len(rest) = 0
        THEN [k \in DOMAIN rs \ {id} |-> rs[k]]
        ELSE [rs EXCEPT ![id] = rest]

\* ws.on("close", ...): the event is emitted as the connection becomes
\* CLOSED.
OnClose(ws) ==
    /\ ~crashed
    /\ readyState[ws] = "OPEN"
    /\ readyState' = [readyState EXCEPT ![ws] = "CLOSED"]
    /\ IF roomId[ws] # Undefined /\ Truthy(rooms, roomId[ws])
       THEN rooms' = LeaveRoom(rooms, ws, roomId[ws])
       ELSE UNCHANGED rooms
    /\ sent' = <<>>
    /\ last' = Event("close", ws, NoData)
    /\ UNCHANGED <<roomId, crashed>>
    /\ UNCHANGED <<stunVars, codecVars>>

-----------------------------------------------------------------------------
(* The STUN codec: src/stun.js *)

MAGIC_COOKIE == 554869826            \* 0x2112A442
BINDING_REQUEST_TYPE == 1            \* 0x0001
BINDING_RESPONSE_TYPE == 257         \* 0x0101
XOR_MAPPED_ADDRESS_TYPE == 32        \* 0x0020
TIMEOUT == 3000                      \* milliseconds

\* The clock of the transaction is followed up to MaxTime milliseconds, in
\* steps taken from Delays.
MaxTime == 4000

Delays == {1000, 2000}

\* Bounds of the model
MaxDatagrams == 2     \* inbound datagrams followed in one transaction
MaxErrors == 1        \* socket 'error' events followed in one transaction

Byte == 0..255

RECURSIVE Pow2(_)
Pow2(n) == IF n = 0 THEN 1 ELSE 2 * Pow2(n - 1)

\* x >>> n, for x >= 0
Shr(x, n) == x \div Pow2(n)

RECURSIVE BitXor(_, _)
\* a ^ b, for a, b >= 0
BitXor(a, b) ==
    IF a = 0 /\ b = 0 THEN 0
    ELSE (((a % 2) + (b % 2)) % 2) + 2 * BitXor(a \div 2, b \div 2)

\* A Buffer is a sequence of bytes; the code's offsets start at 0.
\* buf.readUInt8(offset) and buf.readUInt16BE(offset) throw a RangeError
\* when the bytes they read are not all inside the buffer.
InRange(buf, offset, n) == offset >= 0 /\ offset + n <= Len(buf)

ReadUInt8(buf, offset) == buf[offset + 1]

ReadUInt16BE(buf, offset) == buf[offset + 1] * 256 + buf[offset + 2]

\* writeUInt16BE / writeUInt32BE
UInt16BE(v) == <<((v \div 256) % 256), (v % 256)>>

UInt32BE(v) == UInt16BE(v \div 65536) \o UInt16BE(v % 65536)

\* The transaction ids the random bytes can form in the model.
TransactionIds ==
    {[i \in 1..12 |-> 0], [i \in 1..12 |-> IF i = 12 THEN 255 ELSE 7 * i]}

\* createStunBindingRequest, with the 12 random bytes given.
CreateStunBindingRequest(tid) ==
    UInt16BE(BINDING_REQUEST_TYPE) \o UInt16BE(0) \o UInt32BE(MAGIC_COOKIE) \o tid

\* What a function returns or throws.
Return(v) == [ok |-> TRUE, value |-> v]

Throw(name, message) == [ok |-> FALSE, error |-> [name |-> name, message |-> message]]

RangeError == Throw("RangeError", "out of range")

\* ipBytes.join('.')
JoinDots(bytes) ==
    ToString(bytes[1]) \o "." \o ToString(bytes[2]) \o "."
        \o ToString(bytes[3]) \o "." \o ToString(bytes[4])

\* Mutant of AttrStep: the padding is left out.
AttrStepNoPad(attrLength) == 4 + attrLength

\* The padded size of an attribute: 4 + attrLength + padding.
AttrStep(attrLength) ==
    4 + attrLength + (IF attrLength % 4 # 0 THEN 4 - (attrLength % 4) ELSE 0)

\* Mutant of DecodeAt: the port and the octets are returned as they are read,
\* without the XOR.
DecodeAtPlain(msg, offset) ==
    IF ~InRange(msg, offset + 5, 1) \/ ~InRange(msg, offset + 6, 2)
          \/ \E i \in 0..3 : ~InRange(msg, offset + 8 + i, 1)
    THEN RangeError
    ELSE Return([ip |-> JoinDots([i \in 1..4 |-> ReadUInt8(msg, offset + 8 + (i - 1))]),
                 port |-> ReadUInt16BE(msg, offset + 6)])

\* The body of "if (attrType === XOR_MAPPED_ADDRESS_TYPE)": the reads at
\* offset + 5, offset + 6 and offset + 8 .. offset + 11.
DecodeAt(msg, offset) ==
    IF ~InRange(msg, offset + 5, 1) \/ ~InRange(msg, offset + 6, 2)
          \/ \E i \in 0..3 : ~InRange(msg, offset + 8 + i, 1)
    THEN RangeError
    ELSE LET xPort == ReadUInt16BE(msg, offset + 6)
             port == BitXor(xPort, Shr(MAGIC_COOKIE, 16))
             ipBytes == [i \in 1..4 |->
                            BitXor(ReadUInt8(msg, offset + 8 + (i - 1)),
                                   (Shr(MAGIC_COOKIE, 24 - (i - 1) * 8) % 256))]
         IN  Return([ip |-> JoinDots(ipBytes), port |-> port])

RECURSIVE Walk(_, _)
\* The while loop of decodeXorAddress, from the given offset on.
Walk(msg, offset) ==
    IF ~(offset < Len(msg))
    THEN Throw("Error", "No XOR-MAPPED-ADDRESS found in STUN response")
    ELSE IF ~InRange(msg, offset, 2) \/ ~InRange(msg, offset + 2, 2)
    THEN RangeError
    ELSE LET attrType == ReadUInt16BE(msg, offset)
             attrLength == ReadUInt16BE(msg, offset + 2)
         IN  IF attrType = XOR_MAPPED_ADDRESS_TYPE
             THEN DecodeAt(msg, offset)
             ELSE Walk(msg, offset + AttrStep(attrLength))

DecodeXorAddress(msg) == Walk(msg, 20)

RECURSIVE VisitedOffsets(_, _)
\* The values `offset` takes in the loop body of decodeXorAddress, from the
\* given offset on: the places where the loop reads an attribute header.
VisitedOffsets(msg, offset) ==
    IF ~(offset < Len(msg)) THEN <<>>
    ELSE IF ~InRange(msg, offset, 2) \/ ~InRange(msg, offset + 2, 2)
    THEN <<offset>>
    ELSE LET attrType == ReadUInt16BE(msg, offset)
             attrLength == ReadUInt16BE(msg, offset + 2)
         IN  IF attrType = XOR_MAPPED_ADDRESS_TYPE
             THEN <<offset>>
             ELSE <<offset>> \o VisitedOffsets(msg, offset + AttrStep(attrLength))

\* Mutant of DecodeResponse: the type check is left out.
DecodeResponseAnyType(responseMsg) ==
    IF ~InRange(responseMsg, 0, 2) THEN RangeError
    ELSE DecodeXorAddress(responseMsg)

\* The try block of the 'message' handler: the type check, then the decode.
DecodeResponse(responseMsg) ==
    IF ~InRange(responseMsg, 0, 2) THEN RangeError
    ELSE IF ReadUInt16BE(responseMsg, 0) # BINDING_RESPONSE_TYPE
    THEN Throw("Error", "Invalid STUN response")
    ELSE DecodeXorAddress(responseMsg)

-----------------------------------------------------------------------------
(* Inbound datagrams *)

Zeros(n) == [i \in 1..n |-> 0]

\* One attribute as the server writes it: type, length, value, padding.
Attr(type, value) ==
    UInt16BE(type) \o UInt16BE(Len(value)) \o value
        \o Zeros(AttrStep(Len(value)) - 4 - Len(value))

\* The value of an XOR-MAPPED-ADDRESS attribute for an IPv4 address.
XorAddressValue(ip, port) ==
    <<0, 1>> \o UInt16BE(BitXor(port, Shr(MAGIC_COOKIE, 16)))
        \o [i \in 1..4 |-> BitXor(ip[i], (Shr(MAGIC_COOKIE, 24 - (i - 1) * 8) % 256))]

\* A message: the 20-byte header, then the attributes.
Message(type, tid, attrs) ==
    UInt16BE(type) \o UInt16BE(Len(attrs)) \o UInt32BE(MAGIC_COOKIE) \o tid \o attrs

\* The datagrams the model delivers.
Datagrams ==
    LET tid == Zeros(12)
        xma == Attr(XOR_MAPPED_ADDRESS_TYPE, XorAddressValue(<<203, 0, 113, 7>>, 54321))
        xma2 == Attr(XOR_MAPPED_ADDRESS_TYPE, XorAddressValue(<<10, 255, 0, 1>>, 80))
        \* 0x8022 (SOFTWARE), an attribute the decoder does not look for,
        \* with a value of 3 bytes
        odd == Attr(32802, <<115, 116, 110>>)
    IN  << Message(BINDING_RESPONSE_TYPE, tid, xma),
           Message(BINDING_RESPONSE_TYPE, tid, odd \o xma2),
           Message(BINDING_RESPONSE_TYPE, tid, odd),
           Message(BINDING_RESPONSE_TYPE, tid, <<>>),
           Message(BINDING_REQUEST_TYPE, tid, xma),
           SubSeq(Message(BINDING_RESPONSE_TYPE, tid, xma), 1, 28),
           <<1>>,
           Message(BINDING_RESPONSE_TYPE, tid, <<0>>) >>

\* The reasons a socket 'error' event can carry (err.message).
ErrorReasons == {"EACCES"}

-----------------------------------------------------------------------------
(* The transaction: getPublicAddress *)

Pending == [state |-> "pending"]

\* resolve(value) and reject(error): a promise is settled once, and a later
\* resolve or reject does nothing.
Resolve(p, value) ==
    IF p.state = "pending" THEN [state |-> "fulfilled", value |-> value] ELSE p

\* Mutant of Reject: the outcome is overwritten by a later rejection.
RejectOverwrite(p, error) == [state |-> "rejected", error |-> error]

Reject(p, error) ==
    IF p.state = "pending" THEN [state |-> "rejected", error |-> error] ELSE p

\* new Error(message)
Error(message) == [name |-> "Error", message |-> message]

\* Mutant of CloseSocket: the isClosed test is left out.
CloseSocketUnguarded(closed) == [isClosed |-> TRUE, calls |-> 1]

\* closeSocket: the new value of isClosed and the number of socket.close()
\* calls it makes.
CloseSocket(closed) ==
    IF ~closed THEN [isClosed |-> TRUE, calls |-> 1]
    ELSE [isClosed |-> closed, calls |-> 0]

StunInit ==
    /\ pc = "idle"
    /\ request = <<>>
    /\ promise = Pending
    /\ isClosed = FALSE
    /\ closeCalls = 0
    /\ timerArmed = FALSE
    /\ sendPending = FALSE
    /\ datagrams = 0
    /\ errors = 0
    /\ now = 0
    /\ first = [kind |-> "none"]

\* The event that produced an outcome first.
NoteFirst(ev) == first' = IF first.kind = "none" THEN ev ELSE first

\* The call: the socket is created, the handlers are registered, the
\* request is handed to socket.send and the timer is armed.
GetPublicAddress ==
    /\ pc = "idle"
    /\ pc' = "sent"
    /\ \E tid \in TransactionIds : request' = CreateStunBindingRequest(tid)
    /\ promise' = Pending
    /\ isClosed' = FALSE
    /\ timerArmed' = TRUE
    /\ sendPending' = TRUE
    /\ UNCHANGED <<closeCalls, datagrams, errors, now, first>>
    /\ UNCHANGED <<relayVars, creator, codecVars>>

\* socket.on('error', ...)
OnSocketError(reason) ==
    /\ pc = "sent"
    /\ errors < MaxErrors
    /\ errors' = errors + 1
    /\ promise' = Reject(promise, Error("Socket error: " \o reason))
    /\ LET c == CloseSocket(isClosed)
       IN  isClosed' = c.isClosed /\ closeCalls' = closeCalls + c.calls
    /\ NoteFirst([kind |-> "error", reason |-> reason])
    /\ UNCHANGED <<pc, request, timerArmed, sendPending, datagrams, now>>
    /\ UNCHANGED <<relayVars, creator, codecVars>>

\* The callback of socket.send, with or without an error.
OnSendCallback(err) ==
    /\ pc = "sent"
    /\ sendPending
    /\ sendPending' = FALSE
    /\ IF err
       THEN /\ promise' = Reject(promise, Error("Failed to send STUN request"))
            /\ LET c == CloseSocket(isClosed)
               IN  isClosed' = c.isClosed /\ closeCalls' = closeCalls + c.calls
            /\ NoteFirst([kind |-> "send-failure"])
       ELSE UNCHANGED <<promise, isClosed, closeCalls, first>>
    /\ UNCHANGED <<pc, request, timerArmed, datagrams, errors, now>>
    /\ UNCHANGED <<relayVars, creator, codecVars>>

\* socket.on('message', ...)
OnDatagram(n) ==
    /\ pc = "sent"
    /\ datagrams < MaxDatagrams
    /\ datagrams' = datagrams + 1
    /\ LET r == DecodeResponse(Datagrams[n])
           c == CloseSocket(isClosed)
       IN  /\ promise' = IF r.ok THEN Resolve(promise, r.value)
                         ELSE Reject(promise, r.error)
           /\ isClosed' = c.isClosed
           /\ closeCalls' = closeCalls + c.calls
    /\ NoteFirst([kind |-> "datagram", n |-> n])
    /\ UNCHANGED <<pc, request, timerArmed, sendPending, errors, now>>
    /\ UNCHANGED <<relayVars, creator, codecVars>>

\* Mutant of OnTimeout: the callback closes the socket and leaves the promise
\* alone.
OnTimeoutCloseOnly ==
    /\ pc = "sent"
    /\ timerArmed
    /\ now >= TIMEOUT
    /\ timerArmed' = FALSE
    /\ LET c == CloseSocket(isClosed)
       IN  isClosed' = c.isClosed /\ closeCalls' = closeCalls + c.calls
    /\ NoteFirst([kind |-> "timeout"])
    /\ UNCHANGED <<pc, request, promise, sendPending, datagrams, errors, now>>
    /\ UNCHANGED <<relayVars, creator, codecVars>>

\* The callback of setTimeout(..., TIMEOUT): it runs once TIMEOUT milliseconds
\* have elapsed since the call.
OnTimeout ==
    /\ pc = "sent"
    /\ timerArmed
    /\ now >= TIMEOUT
    /\ timerArmed' = FALSE
    /\ LET c == CloseSocket(isClosed)
       IN  isClosed' = c.isClosed /\ closeCalls' = closeCalls + c.calls
    /\ promise' = Reject(promise, Error("STUN request timed out"))
    /\ NoteFirst([kind |-> "timeout"])
    /\ UNCHANGED <<pc, request, sendPending, datagrams, errors, now>>
    /\ UNCHANGED <<relayVars, creator, codecVars>>

\* The passage of d milliseconds.  The timer is taken to fire on time: the
\* clock does not pass the expiry of an armed timer before its callback ran.
Elapse(d) ==
    /\ pc = "sent"
    /\ now + d <= MaxTime
    /\ timerArmed => now + d <= TIMEOUT
    /\ now' = now + d
    /\ UNCHANGED <<pc, request, promise, isClosed, closeCalls, timerArmed,
                   sendPending, datagrams, errors, first>>
    /\ UNCHANGED <<relayVars, creator, codecVars>>

StunNext ==
    \/ GetPublicAddress
    \/ \E reason \in ErrorReasons : OnSocketError(reason)
    \/ \E err \in BOOLEAN : OnSendCallback(err)
    \/ \E n \in DOMAIN Datagrams : OnDatagram(n)
    \/ OnTimeout
    \/ \E d \in Delays : Elapse(d)

-----------------------------------------------------------------------------
(* One call of the decoder on a response built from a list of attributes *)

\* The longest list of attributes put before the decoder.
MaxAttrs == 3

\* An XOR-MAPPED-ADDRESS attribute for an IPv4 address and a port.
XorAttr(ip, port) == [type |-> XOR_MAPPED_ADDRESS_TYPE, ip |-> ip, port |-> port]

\* Attributes the decoder does not look for, by type and length of value:
\* 0x8022 (SOFTWARE) with values of 0, 1, 2, 3 and 5 bytes, and 0x0001
\* (MAPPED-ADDRESS) with its 8 bytes.
OtherAttrs ==
    {[type |-> 32802, len |-> l] : l \in {0, 1, 2, 3, 5}} \cup {[type |-> 1, len |-> 8]}

AttrKinds ==
    OtherAttrs \cup {XorAttr(<<203, 0, 113, 7>>, 54321), XorAttr(<<10, 255, 0, 1>>, 80)}

\* The octets and ports of the responses that carry one attribute.
Octets == {0, 33, 127, 255}

Ports == {0, 1, 8466, 54321, 65535}

\* The attribute lists the decoder is called with.
Responses ==
    UNION {[1..n -> AttrKinds] : n \in 0..MaxAttrs}
    \cup {<<XorAttr(<<a, b, c, d>>, port)>> :
              a \in Octets, b \in Octets, c \in Octets, d \in Octets, port \in Ports}

\* The value of an attribute the decoder skips: bytes that read as the type
\* 0x0020 wherever two of them are taken as a 16-bit field.
Filler(len) == [i \in 1..len |-> IF i % 2 = 0 THEN 32 ELSE 0]

AttrBytes(d) ==
    IF d.type = XOR_MAPPED_ADDRESS_TYPE
    THEN Attr(d.type, XorAddressValue(d.ip, d.port))
    ELSE Attr(d.type, Filler(d.len))

RECURSIVE AttrsBytes(_)
AttrsBytes(ds) ==
    IF ds = <<>> THEN <<>> ELSE AttrBytes(Head(ds)) \o AttrsBytes(Tail(ds))

\* The Binding Response that carries the given attributes.
ResponseOf(ds) == Message(BINDING_RESPONSE_TYPE, Zeros(12), AttrsBytes(ds))

CodecIdle ==
    /\ attrList = <<>>
    /\ decoded = [done |-> FALSE]

CodecInit ==
    /\ RelayInit
    /\ StunInit
    /\ attrList \in Responses
    /\ decoded = [done |-> FALSE]

\* The decoder is run on the response, as the try block of the 'message'
\* handler runs it.
Decode ==
    /\ ~decoded.done
    /\ decoded' = [done |-> TRUE,
                   result |-> DecodeResponse(ResponseOf(attrList)),
                   visited |-> VisitedOffsets(ResponseOf(attrList), 20)]
    /\ UNCHANGED <<attrList, relayVars, creator, stunVars>>

-----------------------------------------------------------------------------
(* The specifications *)

Init == RelayInit /\ StunInit /\ CodecIdle

\* The relay; the history of room creators is not followed.
Next ==
    \/ \E ws \in Conns : Connect(ws) /\ UNCHANGED creator
    \/ \E ws \in Conns, data \in Inbound : OnMessage(ws, data) /\ UNCHANGED creator
    \/ \E ws \in Conns : OnClose(ws) /\ UNCHANGED creator

Spec == Init /\ [][Next]_vars

\* The creator of each room after a step of the relay: the sender of the
\* create-room that stored the room; an id leaves with its room.
TrackCreator ==
    creator' =
        [r \in DOMAIN rooms' |->
            IF /\ last'.kind = "message"
               /\ Get(last'.data, "type") = "create-room"
               /\ sent'[1].msg.roomId = r
            THEN last'.ws
            ELSE creator[r]]

\* The messages that change the room table.
MembershipInbound == {[type |-> "create-room"]} \cup JoinInbound

CreatorNext ==
    \/ \E ws \in Conns : Connect(ws) /\ TrackCreator
    \/ \E ws \in Conns, data \in MembershipInbound : OnMessage(ws, data) /\ TrackCreator
    \/ \E ws \in Conns : OnClose(ws) /\ TrackCreator

\* The relay under create-room, join-room and close events, with the history
\* of room creators.
CreatorSpec == Init /\ [][CreatorNext]_vars

StunSpec == Init /\ [][StunNext]_vars

\* The decoder alone, on each of the responses.
CodecSpec == CodecInit /\ [][Decode]_vars

\* The transaction under a running event loop: time passes and a timer that
\* is due has its callback run.
StunLive ==
    /\ Init
    /\ [][StunNext]_vars
    /\ WF_vars(GetPublicAddress)
    /\ WF_vars(\E d \in Delays : Elapse(d))
    /\ WF_vars(OnTimeout)

-----------------------------------------------------------------------------
(* Vocabulary of the relay's properties *)

Range(list) == {list[i] : i \in DOMAIN list}

\* The send() calls of the last handler whose message has the given type.
SentOfType(s, t) == {i \in DOMAIN s : s[i].msg.type = t}

\* The connections the last handler called send() on.
SentTo(s) == {s[i].to : i \in DOMAIN s}

IsMessage(ev) == ev.kind = "message"

IsJoin(ev) == IsMessage(ev) /\ Get(ev.data, "type") = "join-room"

IsRelay(ev) == IsMessage(ev) /\ Get(ev.data, "type") \in RelayTypes

Key(ev) == Get(ev.data, "roomId")

\* The last handler was a join-room that appended the sender to a room: a
\* join-room that fails leaves its room id out of the table.
JoinDone == IsJoin(last) /\ Key(last) \in DOMAIN rooms

RoomNotFound(ws) == Send(ws, [type |-> "error", message |-> "Room not found"])

-----------------------------------------------------------------------------
\* C1: on every successful join-room on a room R, start-webrtc is sent if
\* and only if R's list holds exactly two connections after the append; a
\* join that brings R to three or more sends no start-webrtc.
C1_StartOnlyAtTwo ==
    JoinDone =>
        (SentOfType(sent, "start-webrtc") # {} <=> Len(rooms[Key(last)]) = 2)

\* C2: no connection is in the participant lists of two different rooms at
\* the same time.
C2_OneRoomPerConnection ==
    \A r1 \in DOMAIN rooms, r2 \in DOMAIN rooms :
        r1 # r2 => Range(rooms[r1]) \cap Range(rooms[r2]) = {}

\* C3: no room's participant list contains the same connection more than
\* once.
C3_NoDuplicateParticipant ==
    \A r \in DOMAIN rooms :
        \A i \in DOMAIN rooms[r], j \in DOMAIN rooms[r] :
            rooms[r][i] = rooms[r][j] => i = j

\* C6 (witness): a negotiation message was forwarded to a participant of
\* its room while another open connection is outside that room.
C6_Witness ==
    /\ IsRelay(last)
    /\ SentTo(sent) # {}
    /\ Key(last) \in DOMAIN rooms
    /\ last.ws \in Range(rooms[Key(last)])
    /\ Open(readyState) \ Range(rooms[Key(last)]) # {}

\* C6: when connection S sends webrtc-offer, webrtc-answer or webrtc-ice
\* naming room id R, the connections sent to are exactly the open
\* participants of rooms[R] other than S (none when R does not exist), each
\* gets the message unchanged, and the room table is left unchanged.
C6_RelayDelivery ==
    [][IsRelay(last') =>
          /\ SentTo(sent') =
                 (IF Key(last') \in DOMAIN rooms
                  THEN (Range(rooms[Key(last')]) \cap Open(readyState)) \ {last'.ws}
                  ELSE {})
          /\ \A i \in DOMAIN sent' : sent'[i].msg = last'.data
          /\ rooms' = rooms]_vars

\* C7 (witness): a join-room was handled on a room that holds a closed
\* connection, and at least two connections were notified.
C7_Witness ==
    /\ JoinDone
    /\ Range(rooms[Key(last)]) \ Open(readyState) # {}
    /\ Cardinality({sent[i].to : i \in SentOfType(sent, "user-joined")}) >= 2
    /\ "username" \in DOMAIN last.data

\* C7: on every successful join-room(R, username), user-joined carrying that
\* username is sent to every connection that is in R's list after the join
\* and is open, and to no other connection.
C7_UserJoinedAudience ==
    JoinDone =>
        LET notices == SentOfType(sent, "user-joined")
        IN  /\ {sent[i].to : i \in notices}
                   = Range(rooms[Key(last)]) \cap Open(readyState)
            /\ \A i \in notices :
                   Get(sent[i].msg, "username") = Get(last.data, "username")

\* C8: a join-room naming a room id that is not in the room table sends
\* exactly one message, the error reply to the sender, and leaves the set of
\* rooms, every list and the sender's back-reference as they were.
C8_JoinUnknownRoom ==
    [][(IsJoin(last') /\ "roomId" \in DOMAIN last'.data
            /\ Key(last') \notin DOMAIN rooms) =>
          /\ sent' = <<RoomNotFound(last'.ws)>>
          /\ rooms' = rooms
          /\ roomId' = roomId]_vars

\* C9 (witness): a close event deleted the room of the connection that
\* closed, while another room is still in the table.
C9_Witness ==
    /\ last.kind = "close"
    /\ roomId[last.ws] \in RoomIds
    /\ roomId[last.ws] \notin DOMAIN rooms
    /\ DOMAIN rooms # {}

\* C9: no reachable state holds a room whose list is empty; a close event
\* that removes the last entry of a room deletes the room in the same
\* handler; an id comes into the table only by a create-room that drew it,
\* and a join-room naming an id that is not in the table is answered with
\* the room-not-found error and does not bring it back.
C9_NoEmptyRoom ==
    /\ [](\A r \in DOMAIN rooms : Len(rooms[r]) > 0)
    /\ [][/\ (/\ last'.kind = "close"
              /\ roomId[last'.ws] \in DOMAIN rooms
              /\ Range(rooms[roomId[last'.ws]]) = {last'.ws})
             => roomId[last'.ws] \notin DOMAIN rooms'
          /\ \A r \in RoomIds :
                /\ (r \notin DOMAIN rooms /\ r \in DOMAIN rooms')
                      => /\ IsMessage(last')
                         /\ Get(last'.data, "type") = "create-room"
                         /\ sent'[1].msg.roomId = r
                /\ (IsJoin(last') /\ Key(last') = r /\ r \notin DOMAIN rooms)
                      => /\ sent' = <<RoomNotFound(last'.ws)>>
                         /\ r \notin DOMAIN rooms']_vars

\* A message body that is malformed: its type is not a recognized one, or a
\* field required for its type is missing.
Malformed(data) ==
    \/ Get(data, "type") \notin {"create-room", "join-room"} \cup RelayTypes
    \/ /\ Get(data, "type") = "join-room"
       /\ {"roomId", "username"} \ DOMAIN data # {}
    \/ /\ Get(data, "type") \in RelayTypes
       /\ "roomId" \notin DOMAIN data

C15_Witness ==
    /\ JoinDone
    /\ SentOfType(sent, "start-webrtc") # {}
    /\ last.ws # rooms[Key(last)][1]
    /\ Len(rooms[Key(last)]) = 3

\* C15: start-webrtc is sent only by a join-room that appended its sender to
\* a room R, at most once by that join, and to the connection at the head of
\* R's list; no other connection is sent start-webrtc.
C15_StartToHeadOnly ==
    LET starts == SentOfType(sent, "start-webrtc")
    IN  /\ starts # {} => JoinDone
        /\ Cardinality(starts) <= 1
        /\ \A i \in starts : sent[i].to = rooms[Key(last)][1]

\* C16 (original statement): the connection that is sent start-webrtc for
\* room R is the connection whose create-room produced R.
C16_StartToCreator ==
    JoinDone =>
        \A i \in SentOfType(sent, "start-webrtc") : sent[i].to = creator[Key(last)]

\* C16 (witness): start-webrtc was sent for a room whose creator has left
\* its list.
C16_Witness ==
    /\ JoinDone
    /\ SentOfType(sent, "start-webrtc") # {}
    /\ creator[Key(last)] \notin Range(rooms[Key(last)])

\* C16: the connection that is sent start-webrtc for room R is the creator
\* of R as long as the creator is in R's list; once the creator has closed
\* and left the list, it is the earliest-joined connection that remains.
C16_StartToCreatorWhilePresent ==
    JoinDone =>
        \A i \in SentOfType(sent, "start-webrtc") :
            LET c == creator[Key(last)]
                list == rooms[Key(last)]
            IN  IF c \in Range(list)
                THEN sent[i].to = c
                ELSE sent[i].to = list[1] /\ readyState[c] = "CLOSED"

\* C18: a connection whose close event has been handled is in no room's
\* participant list.
C18_ClosedInNoRoom ==
    \A c \in Conns :
        readyState[c] = "CLOSED" => \A r \in DOMAIN rooms : c \notin Range(rooms[r])

\* C19: every send() call of a handler is made on a connection that is open.
C19_SendOnlyToOpen ==
    \A i \in DOMAIN sent : readyState[sent[i].to] = "OPEN"

\* C20 (original statement): a negotiation message is delivered to
\* participants of the room it names only when its sender is in that room's
\* participant list.
C20_SenderInRoom ==
    IsRelay(last) /\ SentTo(sent) # {} => last.ws \in Range(rooms[Key(last)])

\* C20 (witness): a connection outside the room it named had its
\* negotiation message forwarded to a participant of that room.
C20_Witness ==
    /\ IsRelay(last)
    /\ Key(last) \in DOMAIN rooms
    /\ last.ws \notin Range(rooms[Key(last)])
    /\ SentTo(sent) # {}

\* C20: a negotiation message naming room R whose sender is not in R's
\* participant list is forwarded, unchanged, to every open participant of R.
C20_OutsiderReachesRoom ==
    IsRelay(last) /\ Key(last) \in DOMAIN rooms
            /\ last.ws \notin Range(rooms[Key(last)]) =>
        /\ SentTo(sent) = Range(rooms[Key(last)]) \cap Open(readyState)
        /\ \A i \in DOMAIN sent : sent[i].msg = last.data

-----------------------------------------------------------------------------
(* Vocabulary of the transaction's properties *)

Terminal == promise.state # "pending"

\* Resolved, TimedOut or Failed; Pending before any of them.
Outcome ==
    IF promise.state = "pending" THEN "Pending"
    ELSE IF promise.state = "fulfilled" THEN "Resolved"
    ELSE IF promise.error.message = "STUN request timed out" THEN "TimedOut"
    ELSE "Failed"

\* What the given event produces when it is the first one.
ProducedBy(ev) ==
    CASE ev.kind = "datagram" ->
             LET r == DecodeResponse(Datagrams[ev.n])
             IN  IF r.ok THEN [state |-> "fulfilled", value |-> r.value]
                 ELSE [state |-> "rejected", error |-> r.error]
      [] ev.kind = "error" ->
             [state |-> "rejected", error |-> Error("Socket error: " \o ev.reason)]
      [] ev.kind = "send-failure" ->
             [state |-> "rejected", error |-> Error("Failed to send STUN request")]
      [] ev.kind = "timeout" ->
             [state |-> "rejected", error |-> Error("STUN request timed out")]
      [] OTHER -> Pending

\* C4 (witness): a datagram resolved the transaction, and the timer and a
\* socket error fired after it.
C4_Witness ==
    /\ first.kind = "datagram"
    /\ Outcome = "Resolved"
    /\ ~timerArmed
    /\ errors > 0

\* C4: the transaction has at most one terminal outcome among Resolved,
\* TimedOut and Failed: the one produced by the first datagram, socket
\* error, send failure or timer expiry; an event firing later does not
\* change it.
C4_FirstEventWins ==
    /\ promise = ProducedBy(first)
    /\ Terminal <=> first.kind # "none"

\* C5 (witness): the transaction is terminal after at least two callbacks
\* asked for the socket to be closed.
C5_Witness ==
    /\ Terminal
    /\ ~timerArmed
    /\ datagrams > 0
    /\ closeCalls = 1

\* C5: socket.close() is invoked at most once under every interleaving of
\* the callbacks, and it has been invoked in every state in which the
\* transaction is terminal.
C5_ClosedExactlyOnce ==
    /\ closeCalls <= 1
    /\ Terminal => closeCalls = 1

\* C11 (witness): the deadline passed with no datagram and no socket error,
\* and the timer ended the transaction.
C11_Witness ==
    /\ first.kind = "timeout"
    /\ datagrams = 0
    /\ errors = 0
    /\ now = TIMEOUT
    /\ Outcome = "TimedOut"
    /\ closeCalls = 1

\* C11: every transaction that was started reaches a terminal outcome, given
\* that time passes and the armed timer fires; when the timer is the first
\* event to produce an outcome the transaction is TimedOut with the timeout
\* error and socket.close() was invoked exactly once; and no transaction is
\* still waiting once more than TIMEOUT milliseconds have elapsed.
C11_TimeoutEndsWait ==
    /\ (pc = "sent") ~> Terminal
    /\ [](first.kind = "timeout" =>
            /\ Outcome = "TimedOut"
            /\ promise.error = Error("STUN request timed out")
            /\ closeCalls = 1)
    /\ [](pc = "sent" /\ ~Terminal => now <= TIMEOUT /\ timerArmed)

\* C12: in no state is the transaction terminal while its timer is still
\* armed: the timer is cancelled by the transition that ends the transaction.
C12_TimerCancelled == Terminal => ~timerArmed

-----------------------------------------------------------------------------
(* Vocabulary of the decoder's properties *)

\* length rounded up to the next multiple of 4
PadTo4(length) == ((length + 3) \div 4) * 4

ValueLen(d) == IF d.type = XOR_MAPPED_ADDRESS_TYPE THEN 8 ELSE d.len

RECURSIVE StartOffsets(_, _)
\* Where the attributes of the list start in the buffer, the first of them
\* at the given offset.
StartOffsets(ds, offset) ==
    IF ds = <<>> THEN <<>>
    ELSE <<offset>> \o StartOffsets(Tail(ds), offset + 4 + PadTo4(ValueLen(Head(ds))))

\* The place of the first XOR-MAPPED-ADDRESS attribute in the list, 0 when
\* there is none.
FirstXor(ds) ==
    LET at == {i \in DOMAIN ds : ds[i].type = XOR_MAPPED_ADDRESS_TYPE}
    IN  IF at = {} THEN 0 ELSE CHOOSE i \in at : \A j \in at : i <= j

\* C13 (witness): the decoder found the address behind two attributes whose
\* lengths are not multiples of 4.
C13_Witness ==
    /\ decoded.done
    /\ Len(attrList) = 3
    /\ FirstXor(attrList) = 3
    /\ attrList[1].len = 3
    /\ attrList[2].len = 5
    /\ decoded.result.ok

\* C13: on a response made of the 20-byte header and complete attributes,
\* the walk reads attribute headers exactly at the start offsets of the
\* attributes, each 4 + length + padding after the one before, up to and
\* including the first attribute of type 0x0020, and returns the address
\* that attribute carries; with no such attribute it visits every attribute
\* and throws the not-found error.  The walk ends on every response.
C13_AttributeWalk ==
    decoded.done =>
        LET k == FirstXor(attrList)
            starts == StartOffsets(attrList, 20)
        IN  /\ decoded.visited = IF k = 0 THEN starts ELSE SubSeq(starts, 1, k)
            /\ decoded.result =
                   IF k = 0
                   THEN Throw("Error", "No XOR-MAPPED-ADDRESS found in STUN response")
                   ELSE Return([ip |-> JoinDots(attrList[k].ip), port |-> attrList[k].port])

\* Bytes 0 to 3 of 0x2112A442, most significant first.
CookieBytes == <<33, 18, 164, 66>>

\* C14 (witness): the address 255.0.33.127 with the port 0x2112, whose
\* XOR-ed form is zero, was decoded.
C14_Witness ==
    /\ decoded.done
    /\ attrList = <<XorAttr(<<255, 0, 33, 127>>, 8466)>>
    /\ decoded.result.ok

\* C14: a response whose only attribute is an XOR-MAPPED-ADDRESS carrying
\* the port XOR-ed with 0x2112 and octet i XOR-ed with byte i of 0x2112A442
\* decodes to the original dotted-quad address and the original port.
C14_RoundTrip ==
    decoded.done /\ Len(attrList) = 1 /\ attrList[1].type = XOR_MAPPED_ADDRESS_TYPE =>
        LET a == attrList[1]
            value == SubSeq(ResponseOf(attrList), 25, 32)
        IN  /\ value = <<0, 1>> \o UInt16BE(BitXor(a.port, 8466))
                           \o [i \in 1..4 |-> BitXor(a.ip[i], CookieBytes[i])]
            /\ decoded.result = Return([ip |-> JoinDots(a.ip), port |-> a.port])

-----------------------------------------------------------------------------
(* Vocabulary of the outcome by kind of datagram *)

Rejected(error) == [state |-> "rejected", error |-> error]

RECURSIVE HeaderOffsets(_, _)
\* The offsets at which the datagram holds an attribute header, whole or cut
\* short, by its type-length-value structure from the given offset on.
HeaderOffsets(buf, offset) ==
    IF offset >= Len(buf) THEN {}
    ELSE IF offset + 4 > Len(buf) THEN {offset}
    ELSE {offset} \cup
         HeaderOffsets(buf, offset + 4 + PadTo4(ReadUInt16BE(buf, offset + 2)))

\* The header at the offset is cut short by the end of the datagram.
CutHeader(buf, offset) == offset + 4 > Len(buf)

\* The header at the offset is whole and its type is 0x0020.
XorHeader(buf, offset) ==
    offset + 4 <= Len(buf) /\ ReadUInt16BE(buf, offset) = XOR_MAPPED_ADDRESS_TYPE

\* The datagram holds a whole attribute of type 0x0020: its header and the
\* 8 bytes of its value.
ContainsXor(buf) ==
    \E o \in HeaderOffsets(buf, 20) : XorHeader(buf, o) /\ o + 12 <= Len(buf)

\* The address an attribute of type 0x0020 at the offset carries.
AddressAt(buf, offset) ==
    [ip |-> JoinDots([i \in 1..4 |-> BitXor(buf[offset + 8 + i], CookieBytes[i])]),
     port |-> BitXor(ReadUInt16BE(buf, offset + 6), 8466)]

\* The first offset at which the walk stops: a header of type 0x0020 or a
\* header cut short; -1 when there is none.
StopOffset(buf) ==
    LET stops == {o \in HeaderOffsets(buf, 20) : CutHeader(buf, o) \/ XorHeader(buf, o)}
    IN  IF stops = {} THEN -1 ELSE CHOOSE o \in stops : \A q \in stops : o <= q

\* C17 (original statement): a first datagram whose leading 16-bit field is
\* not 0x0101 gives the malformed-response error; one of type 0x0101 without
\* an attribute of type 0x0020 gives the not-found error; one of type 0x0101
\* with such an attribute resolves; a socket error gives the transport error
\* with its reason; the timer gives the timeout error; and Resolved is
\* reached in no other way.
C17_OutcomeByKind ==
    /\ first.kind = "datagram" /\ Len(Datagrams[first.n]) >= 2 =>
           LET buf == Datagrams[first.n]
           IN  IF ReadUInt16BE(buf, 0) # BINDING_RESPONSE_TYPE
               THEN promise = Rejected(Error("Invalid STUN response"))
               ELSE IF ContainsXor(buf)
               THEN Outcome = "Resolved"
               ELSE promise =
                       Rejected(Error("No XOR-MAPPED-ADDRESS found in STUN response"))
    /\ first.kind = "error" =>
           promise = Rejected(Error("Socket error: " \o first.reason))
    /\ first.kind = "timeout" => Outcome = "TimedOut"
    /\ Outcome = "Resolved" => first.kind = "datagram"

\* C17 (witness): the first event was a datagram of type 0x0101 that ends
\* inside an attribute, and the transaction failed with the error of the
\* buffer read.
C17_Witness ==
    /\ first.kind = "datagram"
    /\ Len(Datagrams[first.n]) > 20
    /\ promise = Rejected(RangeError.error)

\* C17: the outcome is determined by the first event.  A datagram shorter
\* than 2 bytes fails with the range error of the buffer read; one whose
\* leading field is not 0x0101 fails with the malformed-response error; one
\* of type 0x0101 is walked from offset 20: if the walk meets a header cut
\* short, or a header of type 0x0020 whose 8 value bytes are not all there,
\* the transaction fails with the range error; if it meets a whole attribute
\* of type 0x0020 first, the transaction resolves with that attribute's
\* address; if it meets neither, it fails with the not-found error.  A
\* socket error fails with the transport error and its reason, a send
\* failure with the send error, and the timer with the timeout error.
C17_OutcomeByFirstEvent ==
    /\ first.kind = "datagram" =>
           LET buf == Datagrams[first.n]
               stop == StopOffset(buf)
           IN  promise =
                 IF Len(buf) < 2 THEN Rejected(RangeError.error)
                 ELSE IF ReadUInt16BE(buf, 0) # BINDING_RESPONSE_TYPE
                 THEN Rejected(Error("Invalid STUN response"))
                 ELSE IF stop = -1
                 THEN Rejected(Error("No XOR-MAPPED-ADDRESS found in STUN response"))
                 ELSE IF CutHeader(buf, stop) \/ stop + 12 > Len(buf)
                 THEN Rejected(RangeError.error)
                 ELSE [state |-> "fulfilled", value |-> AddressAt(buf, stop)]
    /\ first.kind = "error" =>
           promise = Rejected(Error("Socket error: " \o first.reason))
    /\ first.kind = "send-failure" =>
           promise = Rejected(Error("Failed to send STUN request"))
    /\ first.kind = "timeout" =>
           promise = Rejected(Error("STUN request timed out"))
    /\ first.kind = "none" => promise = Pending

=============================================================================
